---------------------------- MODULE Spec2Model ----------------------------
(***************************************************************************)
(* Model of the SPH core of the Tit solver: the root-finding primitives of *)
(* tit/core/math.hpp (newton_raphson, bisection), the smoothing kernel of  *)
(* tit/sph/smooth_kernel.hpp, the two particle estimators                  *)
(* (ClassicSmoothEstimator, GradHSmoothEstimator) and the range            *)
(* partitioners of tit/core/par/partitioner.hpp.                           *)
(*                                                                         *)
(* Numbers.  real_t is modelled as a fixed-point number: the integer n     *)
(* stands for the real n / Scale.  Products and quotients are rescaled and *)
(* rounded to the nearest representable number, as floating-point          *)
(* operations are; sums and differences are exact.                         *)
(*                                                                         *)
(* Six machines share the module:                                          *)
(*   SpecNR           one call of newton_raphson, one iteration a step     *)
(*   SpecBisection    one call of bisection, one iteration a step          *)
(*   SpecRootFinders  a call of either root finder, run to its return      *)
(*   SpecKernel       one evaluation of a smoothing kernel                 *)
(*   SpecPartitioner  one blockify call and the splitting of its range     *)
(*   Spec             an estimator driven by init / estimate_density /     *)
(*                    estimate_forces calls over a small particle cloud    *)
(***************************************************************************)
EXTENDS Integers, Sequences, FiniteSets, TLC

VARIABLES
  nr,        \* state of a newton_raphson call
  bis,       \* state of a bisection call
  cfg,       \* estimator configuration, build and particle cloud inputs
  fld,       \* the particle fields the estimators write
  ctl,       \* the estimator call in progress and what the last call returned
  slv,       \* per particle: iteration count and status of the width solve
  obs,       \* observations: fields at call entry, Omega slots read
  krn,       \* a smoothing kernel, its arguments and what it returned
  par        \* a partitioner call and the chunks of its blocked range

estVars == <<cfg, fld, ctl, slv, obs>>
auxVars == <<krn, par>>

(***************************************************************************)
(* Fixed-point arithmetic                                                  *)
(***************************************************************************)

\* One unit of real_t is Scale units of the model.
Scale == 1000

\* Integer quotient rounded to the nearest integer, halves away from zero
\* (the rounding of the model type, symmetric in the signs).
Quot(a, b) ==
  LET n == IF a < 0 THEN -a ELSE a
      d == IF b < 0 THEN -b ELSE b
      q == (2 * n + d) \div (2 * d)
  IN  IF (a < 0) = (b < 0) THEN q ELSE -q

\* a * b and a / b of two fixed-point numbers.
mul(a, b) == Quot(a * b, Scale)
div(a, b) == Quot(a * Scale, b)

(***************************************************************************)
(* tit/core/math.hpp                                                       *)
(***************************************************************************)

abs(a) == IF a < 0 THEN -a ELSE a

\* int{0 < a} - int{a < 0}
sign(a) == (IF 0 < a THEN 1 ELSE 0) - (IF a < 0 THEN 1 ELSE 0)

pow2(a) == mul(a, a)

pow3(a) == mul(mul(a, a), a)

inverse(a) == div(Scale, a)

\* avg of two values: (a + b) / 2.
\* Defective variant of avg: the first value instead of the mean.
avg_first(a, b) == a

avg(a, b) == Quot(a + b, 2)

\* small_number_v<Num>: the epsilon of the numeric type (one model unit).
small_number_v == 1

is_small(a) == abs(a) <= small_number_v

\* Default iteration cap of both root finders.
default_max_iter == 10

(***************************************************************************)
(* newton_raphson                                                          *)
(***************************************************************************)

\* The callable f of a newton_raphson call, as a descriptor.  f returns the
\* pair (value, derivative) at the current estimate x.
\*   quad:  f(x) = x^2 - c,  df/dx = 2x
\*   lin:   f(x) = a*x + b,  df/dx = a
\*   const: f returns the same pair whatever x is
NRApply(f, x) ==
  CASE f.kind = "quad"  -> [y |-> pow2(x) - f.c, df |-> 2 * x]
    [] f.kind = "lin"   -> [y |-> mul(f.a, x) + f.b, df |-> f.a]
    [] f.kind = "const" -> [y |-> f.y, df |-> f.df]

\* Defective variants of the loop body of newton_raphson: the zero derivative
\* reported as fail_max_iter; the success test against the default small
\* number instead of eps; the derivative test strict.
newton_raphson_wrong_status(x, y, df_dx, eps) ==
  IF abs(y) <= eps THEN [status |-> "success", x |-> x, divs |-> <<>>]
  ELSE IF is_small(df_dx)
       THEN [status |-> "fail_max_iter", x |-> x, divs |-> <<>>]
  ELSE [status |-> "continue", x |-> x - div(y, df_dx), divs |-> <<df_dx>>]

newton_raphson_default_tol(x, y, df_dx, eps) ==
  IF is_small(y) THEN [status |-> "success", x |-> x, divs |-> <<>>]
  ELSE IF is_small(df_dx)
       THEN [status |-> "fail_zero_deriv", x |-> x, divs |-> <<>>]
  ELSE [status |-> "continue", x |-> x - div(y, df_dx), divs |-> <<df_dx>>]

newton_raphson_strict_deriv(x, y, df_dx, eps) ==
  IF abs(y) <= eps THEN [status |-> "success", x |-> x, divs |-> <<>>]
  ELSE IF abs(df_dx) < small_number_v
       THEN [status |-> "fail_zero_deriv", x |-> x, divs |-> <<>>]
  ELSE [status |-> "continue", x |-> x - div(y, df_dx), divs |-> <<df_dx>>]

\* Defective variant: the success test on y itself instead of its magnitude.
newton_raphson_signed_test(x, y, df_dx, eps) ==
  IF y <= eps THEN [status |-> "success", x |-> x, divs |-> <<>>]
  ELSE IF is_small(df_dx)
       THEN [status |-> "fail_zero_deriv", x |-> x, divs |-> <<>>]
  ELSE [status |-> "continue", x |-> x - div(y, df_dx), divs |-> <<df_dx>>]

\* Body of one loop iteration of newton_raphson, after f returned (y, df_dx):
\* the status decided ("continue" when the loop goes on), the new x and the
\* divisors used.
newton_raphson_body(x, y, df_dx, eps) ==
  IF abs(y) <= eps THEN [status |-> "success", x |-> x, divs |-> <<>>]
  ELSE IF is_small(df_dx)
       THEN [status |-> "fail_zero_deriv", x |-> x, divs |-> <<>>]
  ELSE [status |-> "continue", x |-> x - div(y, df_dx), divs |-> <<df_dx>>]

\* Inputs of the newton_raphson machine.
NRFuncs ==
  {[kind |-> "quad", c |-> 2 * Scale]}
  \cup {[kind |-> "lin", a |-> a, b |-> b] :
          a \in {3, Scale, -2 * Scale}, b \in {-Scale, 7}}
  \cup {[kind |-> "const", y |-> y, df |-> df] :
          y \in {0, 3, 5, -8}, df \in {0, 1, -1, 3, Scale}}
\* Largest starting estimate, in units.
MaxStart == 3
NRStarts == {k * Scale : k \in 0..MaxStart}
NREps == {0, small_number_v, 5}
NRMaxIters == {0, 1, 2, default_max_iter}

NRInit ==
  \E f \in NRFuncs, x0 \in NRStarts, eps \in NREps, max_iter \in NRMaxIters :
    nr = [f |-> f, x |-> x0, eps |-> eps, max_iter |-> max_iter,
          iter |-> 0, status |-> "running", evals |-> <<>>, divs |-> <<>>]

NRIdle ==
  nr = [f |-> [kind |-> "const", y |-> 0, df |-> 0], x |-> 0, eps |-> 0,
        max_iter |-> 0, iter |-> 0, status |-> "unused",
        evals |-> <<>>, divs |-> <<>>]

\* Defective variant of NRIterate: the loop without its iteration cap.
NRIterateUncapped ==
  /\ nr.status = "running"
  /\ LET r == NRApply(nr.f, nr.x)
         b == newton_raphson_body(nr.x, r.y, r.df, nr.eps)
     IN  nr' = [nr EXCEPT
                  !.evals = Append(@, [x |-> nr.x, y |-> r.y, df |-> r.df]),
                  !.divs = @ \o b.divs,
                  !.x = b.x,
                  !.status = IF b.status = "continue" THEN "running"
                             ELSE b.status]
  /\ UNCHANGED <<bis, estVars, auxVars>>

\* One iteration of the loop: invoke f, test, update x.
NRIterate ==
  /\ nr.status = "running"
  /\ nr.iter < nr.max_iter
  /\ LET r == NRApply(nr.f, nr.x)
         b == newton_raphson_body(nr.x, r.y, r.df, nr.eps)
     IN  nr' = [nr EXCEPT
                  !.evals = Append(@, [x |-> nr.x, y |-> r.y, df |-> r.df]),
                  !.divs = @ \o b.divs,
                  !.x = b.x,
                  !.iter = IF b.status = "continue" THEN @ + 1 ELSE @,
                  !.status = IF b.status = "continue" THEN "running"
                             ELSE b.status]
  /\ UNCHANGED <<bis, estVars, auxVars>>

\* The loop condition fails: return fail_max_iter.
NRExhaust ==
  /\ nr.status = "running"
  /\ nr.iter >= nr.max_iter
  /\ nr' = [nr EXCEPT !.status = "fail_max_iter"]
  /\ UNCHANGED <<bis, estVars, auxVars>>

NRDone == nr.status \in {"success", "fail_max_iter", "fail_zero_deriv"}

(***************************************************************************)
(* bisection                                                               *)
(***************************************************************************)

\* The callable f of a bisection call.
\*   lin:   f(x) = a*x + b
\*   cubic: f(x) = x^3 - c
\*   step:  f(x) = lo for x < t, hi for x >= t
\*   quad:  f(x) = x^2 - c
\*   ramp:  f(x) = x - t for x < t, k*(x - t) for x >= t
BisApply(f, x) ==
  CASE f.kind = "lin"   -> mul(f.a, x) + f.b
    [] f.kind = "ramp"  -> IF x < f.t THEN x - f.t ELSE mul(f.k, x - f.t)
    [] f.kind = "cubic" -> pow3(x) - f.c
    [] f.kind = "step"  -> IF x < f.t THEN f.lo ELSE f.hi
    [] f.kind = "quad"  -> pow2(x) - f.c

\* The entry block: the residuals of the two bounds are tested first.
bisection_entry(min_x, max_x, f, eps) ==
  LET min_f == BisApply(f, min_x)
      max_f == BisApply(f, max_x)
  IN  IF abs(min_f) <= eps
      THEN [status |-> "success", min_x |-> min_x, max_x |-> min_x,
            min_f |-> min_f, max_f |-> 0, evals |-> 1]
      ELSE IF abs(max_f) <= eps
      THEN [status |-> "success", min_x |-> max_x, max_x |-> max_x,
            min_f |-> min_f, max_f |-> max_f, evals |-> 2]
      ELSE [status |-> "continue", min_x |-> min_x, max_x |-> max_x,
            min_f |-> min_f, max_f |-> max_f, evals |-> 2]

\* Defective variants of the loop body of bisection: the bracket update
\* swapped; the sign failure reported as fail_max_iter.
bisection_swapped(b, f, eps) ==
  IF sign(b.max_f) = sign(b.min_f)
  THEN [b EXCEPT !.status = "failure_sign"]
  ELSE LET x == b.min_x - div(mul(b.min_f, b.max_x - b.min_x),
                              b.max_f - b.min_f)
           y == BisApply(f, x)
       IN  IF abs(y) <= eps
           THEN [b EXCEPT !.status = "success", !.min_x = x, !.max_x = x,
                          !.evals = @ + 1, !.xs = Append(@, x)]
           ELSE IF sign(y) # sign(b.min_f)
           THEN [b EXCEPT !.min_x = x, !.min_f = y, !.evals = @ + 1,
                          !.xs = Append(@, x)]
           ELSE IF sign(y) # sign(b.max_f)
           THEN [b EXCEPT !.max_x = x, !.max_f = y, !.evals = @ + 1,
                          !.xs = Append(@, x)]
           ELSE [b EXCEPT !.evals = @ + 1, !.xs = Append(@, x)]

bisection_wrong_status(b, f, eps) ==
  IF sign(b.max_f) = sign(b.min_f)
  THEN [b EXCEPT !.status = "fail_max_iter"]
  ELSE LET x == b.min_x - div(mul(b.min_f, b.max_x - b.min_x),
                              b.max_f - b.min_f)
           y == BisApply(f, x)
       IN  IF abs(y) <= eps
           THEN [b EXCEPT !.status = "success", !.min_x = x, !.max_x = x,
                          !.evals = @ + 1, !.xs = Append(@, x)]
           ELSE IF sign(y) # sign(b.min_f)
           THEN [b EXCEPT !.max_x = x, !.max_f = y, !.evals = @ + 1,
                          !.xs = Append(@, x)]
           ELSE IF sign(y) # sign(b.max_f)
           THEN [b EXCEPT !.min_x = x, !.min_f = y, !.evals = @ + 1,
                          !.xs = Append(@, x)]
           ELSE [b EXCEPT !.evals = @ + 1, !.xs = Append(@, x)]

\* Body of one loop iteration of bisection.
bisection_body(b, f, eps) ==
  IF sign(b.max_f) = sign(b.min_f)
  THEN [b EXCEPT !.status = "failure_sign"]
  ELSE LET x == b.min_x - div(mul(b.min_f, b.max_x - b.min_x),
                              b.max_f - b.min_f)
           y == BisApply(f, x)
       IN  IF abs(y) <= eps
           THEN [b EXCEPT !.status = "success", !.min_x = x, !.max_x = x,
                          !.evals = @ + 1, !.xs = Append(@, x)]
           ELSE IF sign(y) # sign(b.min_f)
           THEN [b EXCEPT !.max_x = x, !.max_f = y, !.evals = @ + 1,
                          !.xs = Append(@, x)]
           ELSE IF sign(y) # sign(b.max_f)
           THEN [b EXCEPT !.min_x = x, !.min_f = y, !.evals = @ + 1,
                          !.xs = Append(@, x)]
           ELSE [b EXCEPT !.evals = @ + 1, !.xs = Append(@, x)]

\* Inputs of the bisection machine.
\* Upper bound of a narrow bracket [0, 0.05].
NarrowBound == Quot(Scale, 20)
BisFuncs ==
  {[kind |-> "lin", a |-> a, b |-> b] :
     a \in {Scale, -2 * Scale}, b \in {-Scale, 0, 3 * Scale}}
  \cup {[kind |-> "cubic", c |-> c] : c \in {Scale, 8 * Scale}}
  \cup {[kind |-> "step", t |-> Scale, lo |-> -Scale, hi |-> 2 * Scale]}
  \cup {[kind |-> "step", t |-> NarrowBound, lo |-> -490, hi |-> 1]}
  \cup {[kind |-> "quad", c |-> Scale]}
  \cup {[kind |-> "ramp", t |-> Scale, k |-> 2 * Scale]}
\* Largest bracket bound, in units.
MaxBound == 4
BisBounds == {k * Scale : k \in -2..MaxBound} \cup {NarrowBound}
BisEps == {0, small_number_v, 5}
BisMaxIters == {0, 1, 2, default_max_iter}

\* Monotone on the whole line.
Monotone(f) == f.kind \in {"lin", "cubic", "step", "ramp"}

BisInit ==
  \E f \in BisFuncs, lo \in BisBounds, hi \in BisBounds,
     eps \in BisEps, max_iter \in BisMaxIters :
    /\ lo <= hi     \* TIT_ASSERT(min_x <= max_x)
    /\ bis = [f |-> f, eps |-> eps, max_iter |-> max_iter,
              entry_min |-> lo, entry_max |-> hi,
              min_x |-> lo, max_x |-> hi, min_f |-> 0, max_f |-> 0,
              iter |-> 0, status |-> "entry", evals |-> 0, xs |-> <<>>]

BisIdle ==
  bis = [f |-> [kind |-> "quad", c |-> 0], eps |-> 0, max_iter |-> 0,
         entry_min |-> 0, entry_max |-> 0,
         min_x |-> 0, max_x |-> 0, min_f |-> 0, max_f |-> 0,
         iter |-> 0, status |-> "unused", evals |-> 0, xs |-> <<>>]

\* "Check for the region bounds first."
BisEntry ==
  /\ bis.status = "entry"
  /\ LET e == bisection_entry(bis.min_x, bis.max_x, bis.f, bis.eps)
     IN  bis' = [bis EXCEPT
                   !.status = IF e.status = "continue" THEN "running"
                              ELSE e.status,
                   !.min_x = e.min_x, !.max_x = e.max_x,
                   !.min_f = e.min_f, !.max_f = e.max_f,
                   !.evals = e.evals]
  /\ UNCHANGED <<nr, estVars, auxVars>>

\* One iteration of the loop.
BisIterate ==
  /\ bis.status = "running"
  /\ bis.iter < bis.max_iter
  /\ LET b == bisection_body(bis, bis.f, bis.eps)
     IN  bis' = [b EXCEPT !.iter = IF b.status = "running" THEN @ + 1 ELSE @]
  /\ UNCHANGED <<nr, estVars, auxVars>>

\* The loop condition fails: return fail_max_iter.
BisExhaust ==
  /\ bis.status = "running"
  /\ bis.iter >= bis.max_iter
  /\ bis' = [bis EXCEPT !.status = "fail_max_iter"]
  /\ UNCHANGED <<nr, estVars, auxVars>>

BisDone == bis.status \in {"success", "fail_max_iter", "failure_sign"}

(***************************************************************************)
(* Smoothing kernel (SmoothingKernel<CubicSmoothingKernel>)                *)
(*                                                                         *)
(* The cloud is two-dimensional with every particle on the y axis: each    *)
(* vector is (0, y) and is represented by its y component, so that         *)
(* norm(r) = |y|, dot(u, w) = u * w and cross(u, w) = 0.                   *)
(***************************************************************************)

\* dim(r[a]): the spatial dimension of the cloud.
Dim == 2

norm(r) == abs(r)

dot(u, w) == mul(u, w)

\* Cross product of two vectors of the y axis.
cross(u, w) == 0

\* pow(a, n) for a small non-negative integer n.
RECURSIVE pow(_, _)
pow(a, n) == IF n = 0 THEN Scale ELSE mul(pow(a, n - 1), a)

\* Integer square root (largest s with s * s <= n), by Newton's iteration.
RECURSIVE ISqrtFrom(_, _)
ISqrtFrom(n, x) ==
  LET y == (x + n \div x) \div 2
  IN  IF y >= x THEN x ELSE ISqrtFrom(n, y)

sqrt(a) == IF a <= 0 THEN 0 ELSE ISqrtFrom(a * Scale, a * Scale)

\* pow(a, -inverse(1.0 * d)) for d = Dim = 2: 1 / sqrt(a).
pow_neg_inverse_dim(a) == inverse(sqrt(a))

\* safe_divide(a, b): a / b, and 0 where b is approximately zero.
safe_divide(a, b) == IF is_small(b) THEN 0 ELSE div(a, b)

\* 1 / pi.
inv_pi == Quot(318310 * Scale, 1000 * Scale)

\* CubicSmoothingKernel::weight<Real, 2>(): 10 / 7 / pi.
weight == mul(div(10 * Scale, 7 * Scale), inv_pi)

\* CubicSmoothingKernel::unit_radius().
unit_radius == 2 * Scale

unit_value(q) ==
  IF 0 <= q /\ q < Scale
  THEN mul(Quot(Scale, 4), pow3(2 * Scale - q)) - pow3(Scale - q)
  ELSE IF Scale <= q /\ q < 2 * Scale
  THEN mul(Quot(Scale, 4), pow3(2 * Scale - q))
  ELSE 0

unit_deriv(q) ==
  IF 0 <= q /\ q < Scale
  THEN mul(-Quot(3 * Scale, 4), pow2(2 * Scale - q))
       + mul(3 * Scale, pow2(Scale - q))
  ELSE IF Scale <= q /\ q < 2 * Scale
  THEN mul(-Quot(3 * Scale, 4), pow2(2 * Scale - q))
  ELSE 0

\* TIT_ASSERT(h > Real{0.0}, "Kernel width must be positive!"), the
\* precondition of every kernel function.
width_positive(h) == h > 0

\* SmoothingKernel::radius(h)
radius(h) == mul(unit_radius, h)

\* SmoothingKernel::operator()(r, h)
kernel(r, h) ==
  LET h_inverse == inverse(h)
      q == mul(h_inverse, norm(r))
  IN  mul(mul(pow(h_inverse, Dim), weight), unit_value(q))

\* SmoothingKernel::grad(r, h)
grad(r, h) ==
  LET h_inverse == inverse(h)
      q == mul(h_inverse, norm(r))
  IN  mul(mul(mul(pow(h_inverse, Dim + 2), weight),
              safe_divide(unit_deriv(q), q)), r)

\* SmoothingKernel::radius_deriv(r, h)
radius_deriv(r, h) ==
  LET h_inverse == inverse(h)
      q == mul(h_inverse, norm(r))
  IN  mul(mul(pow(h_inverse, Dim + 1), weight),
          -Dim * unit_value(q) - mul(q, unit_deriv(q)))

(***************************************************************************)
(* Particle cloud and collaborators of the estimators                      *)
(***************************************************************************)

\* Particle indices of the cloud.
Particles == {1, 2, 3}

\* n tenths of a unit.
Tenths(n) == Quot(n * Scale, 10)

\* Number of estimator calls the driver makes in one run.
MaxCalls == 2

\* Sum of f[b] over the particles b of S.
RECURSIVE SumOver(_, _)
SumOver(f, S) ==
  IF S = {} THEN 0
  ELSE LET b == CHOOSE x \in S : TRUE IN f[b] + SumOver(f, S \ {b})

\* particles.nearby(a, search_radius, ...): the particles within
\* search_radius of a (a itself among them when the radius is positive).
nearby(a, search_radius) ==
  {b \in Particles : norm(cfg.r[a] - cfg.r[b]) < search_radius}

\* r[a, b] and v[a, b].
r_ab(a, b) == cfg.r[a] - cfg.r[b]
v_ab(a, b) == cfg.v[a] - cfg.v[b]

\* _eos.pressure(a), _eos.sound_speed(a): pure functions of the density of
\* a (an isothermal gas of unit sound speed).
pressure(rho_a) == rho_a
sound_speed(rho_a) == Scale

\* _viscosity.kinematic(a, b), _viscosity.switch_deriv(a): no artificial
\* viscosity.
kinematic(a, b) == 0
switch_deriv(a) == 0

\* The hard-coded downward acceleration of the Grad-H force pass.
gravity == Quot(981 * Scale, 100)

\* What a computation that broke a kernel precondition may leave in a field.
Garbage == {Scale, 3 * Scale}

(***************************************************************************)
(* ClassicSmoothEstimator: per-particle bodies                             *)
(***************************************************************************)

\* init, body of the loop for a fixed particle a.
classic_init(a) ==
  [fld EXCEPT !.h[a] = cfg.kernel_width,
              !.p[a] = pressure(fld.rho[a]),
              !.cs[a] = sound_speed(fld.rho[a])]

\* estimate_density, first loop, body for a non-fixed particle a.
classic_density(a) ==
  LET h_ab == cfg.kernel_width
      search_radius == radius(h_ab)
      nb == nearby(a, search_radius)
      rho_a == SumOver([b \in nb |->
                          mul(cfg.m[b], kernel(r_ab(a, b), h_ab))], nb)
  IN  [fld EXCEPT !.h[a] = h_ab,
                  !.rho[a] = rho_a,
                  !.p[a] = pressure(rho_a),
                  !.cs[a] = sound_speed(rho_a)]

\* estimate_density, second loop (velocity divergence and curl), body for a.
classic_div_curl(a) ==
  LET h_ab == cfg.kernel_width
      search_radius == radius(h_ab)
      nb == nearby(a, search_radius)
      vel(b) == div(cfg.v[a], pow2(fld.rho[a]))
                + div(cfg.v[b], pow2(fld.rho[b]))
      div_sum == SumOver([b \in nb |->
                    mul(cfg.m[b], dot(vel(b), grad(r_ab(a, b), h_ab)))], nb)
      curl_sum == 0 - SumOver([b \in nb |->
                    mul(cfg.m[b], cross(vel(b), grad(r_ab(a, b), h_ab)))], nb)
  IN  [fld EXCEPT !.div_v[a] = mul(div_sum, fld.rho[a]),
                  !.curl_v[a] = mul(curl_sum, fld.rho[a])]

\* estimate_forces, body for a non-fixed particle a.
classic_pair_sum(a) ==
  LET h_ab == cfg.kernel_width
      nb == nearby(a, radius(h_ab))
      P_a == div(fld.p[a], pow2(fld.rho[a]))
      P_b(b) == div(fld.p[b], pow2(fld.rho[b]))
  IN  SumOver([b \in nb |->
         mul(mul(cfg.m[b], P_a + P_b(b) + kinematic(a, b)),
             grad(r_ab(a, b), h_ab))], nb)

classic_forces(a) ==
  LET h_ab == cfg.kernel_width
      search_radius == radius(h_ab)
      nb == nearby(a, search_radius)
      P_a == div(fld.p[a], pow2(fld.rho[a]))
      P_b(b) == div(fld.p[b], pow2(fld.rho[b]))
      dv == 0 - classic_pair_sum(a)
      deps == SumOver([b \in nb |->
                  mul(mul(cfg.m[b], P_a + kinematic(a, b)),
                      dot(grad(r_ab(a, b), h_ab), v_ab(a, b)))], nb)
  IN  [fld EXCEPT !.dv_dt[a] = dv,
                  !.deps_dt[a] = deps,
                  !.dalpha_dt[a] = switch_deriv(a)]

(***************************************************************************)
(* GradHSmoothEstimator: per-particle bodies                               *)
(***************************************************************************)

\* init, body of the loop for a fixed particle a.
gradh_init(a) ==
  [fld EXCEPT
     !.h[a] = mul(cfg.coupling,
                  pow_neg_inverse_dim(div(fld.rho[a], cfg.m[a]))),
     !.Omega[a] = Scale,
     !.p[a] = pressure(fld.rho[a]),
     !.cs[a] = sound_speed(fld.rho[a])]

\* Rho(h) = m[a] * (eta / h)^d, the desired density of particle a at width h.
\* The callable handed to newton_raphson for particle a, at width h_a: the
\* rho[a] and Omega[a] it stores and the pair (zeta, dzeta/dh) it returns.
target_density(a, h_a) == mul(cfg.m[a], pow(div(cfg.coupling, h_a), Dim))

width_residual(a, h_a) ==
  LET eta == cfg.coupling
      search_radius == radius(h_a)
      nb == nearby(a, search_radius)
      rho_a == SumOver([b \in nb |->
                          mul(cfg.m[b], kernel(r_ab(a, b), h_a))], nb)
      Omega_sum == SumOver([b \in nb |->
                          mul(cfg.m[b], radius_deriv(r_ab(a, b), h_a))], nb)
      Rho_a == target_density(a, h_a)
      dRho_dh_a == div(-Dim * Rho_a, h_a)
  IN  [rho |-> rho_a,
       Omega |-> Scale - div(Omega_sum, dRho_dh_a),
       zeta |-> Rho_a - rho_a,
       dzeta_dh |-> dRho_dh_a - Omega_sum]

\* estimate_density, second loop (velocity divergence and curl), body for a.
gradh_div_curl(a) ==
  LET search_radius == radius(fld.h[a])
      nb == nearby(a, search_radius)
      va == div(cfg.v[a], pow2(fld.rho[a]))
      vb(b) == div(cfg.v[b], pow2(fld.rho[b]))
      grad_aba(b) == grad(r_ab(a, b), fld.h[a])
      grad_abb(b) == grad(r_ab(a, b), fld.h[b])
      div_sum == SumOver([b \in nb |->
                    mul(cfg.m[b], dot(va, grad_aba(b))
                                  + dot(vb(b), grad_abb(b)))], nb)
      curl_sum == 0 - SumOver([b \in nb |->
                    mul(cfg.m[b], cross(va, grad_aba(b))
                                  + cross(vb(b), grad_abb(b)))], nb)
  IN  [fld EXCEPT !.div_v[a] = mul(div_sum, fld.rho[a]),
                  !.curl_v[a] = mul(curl_sum, fld.rho[a])]

\* estimate_forces, body for a non-fixed particle a.
\* grad_ab of the pair (a, b): the average of the gradients at the widths of
\* a and of b.
gradh_grad_ab(a, b) ==
  avg(grad(r_ab(a, b), fld.h[a]), grad(r_ab(a, b), fld.h[b]))

\* The term of the neighbour b in the momentum sum of a.
gradh_pair_term(a, b) ==
  LET P_a == div(fld.p[a], mul(fld.Omega[a], pow2(fld.rho[a])))
      P_b == div(fld.p[b], mul(fld.Omega[b], pow2(fld.rho[b])))
      grad_aba == grad(r_ab(a, b), fld.h[a])
      grad_abb == grad(r_ab(a, b), fld.h[b])
  IN  mul(cfg.m[b], mul(P_a, grad_aba) + mul(P_b, grad_abb)
                    + mul(kinematic(a, b), gradh_grad_ab(a, b)))

\* Sum over the neighbours b of a of the pairwise pressure and viscosity
\* terms times the kernel gradients.
gradh_pair_sum(a) ==
  LET nb == nearby(a, radius(fld.h[a]))
  IN  SumOver([b \in nb |-> gradh_pair_term(a, b)], nb)

gradh_forces(a) ==
  LET search_radius == radius(fld.h[a])
      nb == nearby(a, search_radius)
      P_a == div(fld.p[a], mul(fld.Omega[a], pow2(fld.rho[a])))
      P_b(b) == div(fld.p[b], mul(fld.Omega[b], pow2(fld.rho[b])))
      grad_aba(b) == grad(r_ab(a, b), fld.h[a])
      grad_abb(b) == grad(r_ab(a, b), fld.h[b])
      grad_ab(b) == gradh_grad_ab(a, b)
      dv == 0 - gradh_pair_sum(a)
      deps == SumOver([b \in nb |->
                  mul(cfg.m[b],
                      mul(P_a, dot(grad_aba(b), v_ab(a, b)))
                      + mul(kinematic(a, b),
                            dot(grad_ab(b), v_ab(a, b))))], nb)
  IN  [fld EXCEPT !.dv_dt[a] = dv - gravity,
                  !.deps_dt[a] = deps,
                  !.dalpha_dt[a] = switch_deriv(a)]

\* The Omega slots the force pass reads while processing a.
gradh_forces_omega_reads(a) ==
  LET nb == nearby(a, radius(fld.h[a]))
  IN  IF nb = {} THEN {} ELSE nb \cup {a}

\* Whether every kernel call of the second density loop / the force loop for
\* a is made with a positive width.
gradh_widths_positive(a) ==
  /\ width_positive(fld.h[a])
  /\ \A b \in nearby(a, radius(fld.h[a])) : width_positive(fld.h[b])

(***************************************************************************)
(* The estimator machine                                                   *)
(*                                                                         *)
(* A driver calls init, estimate_density and estimate_forces in any order. *)
(* particles.for_each runs the per-particle bodies as independent tasks,   *)
(* in any order; a width solve advances one newton_raphson iteration per   *)
(* step.  A kernel function called with a non-positive width trips its     *)
(* TIT_ASSERT: a build with assertions aborts, a build without them        *)
(* computes something unspecified.                                         *)
(***************************************************************************)

NoReturn == [call |-> "none", outcome |-> "none", errors |-> {}]

\* Particle clouds: positions, velocities, the initial width and the mass of
\* all particles, and the coupling of width to density.  In the sparse one
\* the particles are far apart; it is used with the Grad-H variant and one
\* free particle.  In the cluster one two particles are close together and
\* the third is away from them; it is used with the Grad-H variant and a
\* smaller coupling, with one particle of the close pair fixed.
SparseCloud ==
  [r |-> <<0, 16 * Scale, -16 * Scale>>, v |-> <<0, Scale, 0>>,
   h |-> Tenths(2), m |-> 4 * Scale, eta |-> Scale]
ClusterCloud ==
  [r |-> <<0, Tenths(15), Tenths(4)>>, v |-> <<0, Scale, 0>>,
   h |-> Tenths(5), m |-> Scale, eta |-> Tenths(8)]
Clouds ==
  {[r |-> <<0, Tenths(3), -Tenths(3)>>, v |-> <<Scale, 0, -Scale>>,
    h |-> Tenths(5), m |-> Scale, eta |-> Scale],
   [r |-> <<0, Tenths(4), Tenths(9)>>, v |-> <<0, Scale, Tenths(5)>>,
    h |-> Scale, m |-> Scale, eta |-> Scale],
   SparseCloud, ClusterCloud}
FixedSets == {{}, {3}, {1, 2}}
Widths == {0, Tenths(5)}

EstInit ==
  \E variant \in {"classic", "gradh"}, asserts \in BOOLEAN,
     cloud \in Clouds, fixed \in FixedSets, width \in Widths :
    /\ variant = "gradh" => width = Tenths(5)
    /\ cloud = SparseCloud => (variant = "gradh" /\ fixed = {1, 2})
    /\ cloud = ClusterCloud => (variant = "gradh" /\ fixed = {3})
    /\ cfg = [variant |-> variant, asserts |-> asserts,
              kernel_width |-> width, coupling |-> cloud.eta,
              fixed |-> [a \in Particles |-> a \in fixed],
              m |-> [a \in Particles |-> cloud.m],
              r |-> cloud.r, v |-> cloud.v]
    /\ fld = [h |-> [a \in Particles |-> cloud.h],
              rho |-> [a \in Particles |-> Scale],
              p |-> [a \in Particles |-> Scale],
              cs |-> [a \in Particles |-> 0],
              Omega |-> [a \in Particles |-> Scale],
              div_v |-> [a \in Particles |-> 7],
              curl_v |-> [a \in Particles |-> 7],
              dv_dt |-> [a \in Particles |-> 7],
              deps_dt |-> [a \in Particles |-> 7],
              dalpha_dt |-> [a \in Particles |-> 7]]
    /\ ctl = [call |-> "none", phase |-> "idle", todo |-> {}, calls |-> 0,
              ret |-> NoReturn]
    /\ slv = [iter |-> [a \in Particles |-> 0],
              status |-> [a \in Particles |-> "none"]]
    /\ obs = [pre |-> fld, omega_reads |-> {}]

EstIdle ==
  /\ cfg = "unused" /\ fld = "unused" /\ ctl = "unused"
  /\ slv = "unused" /\ obs = "unused"

\* The call starts its (first) loop over the particles.
Started(call, phase) ==
  [call |-> call, phase |-> phase, todo |-> Particles,
   calls |-> ctl.calls + 1, ret |-> NoReturn]

\* A tripped TIT_ASSERT terminates the program.
Aborted(call, calls) ==
  [call |-> call, phase |-> "aborted", todo |-> {}, calls |-> calls,
   ret |-> [call |-> call, outcome |-> "aborted", errors |-> {}]]

\* The preamble of the fixed-width passes evaluates _kernel.radius(h_ab).
preamble_asserts ==
  /\ cfg.variant = "classic"
  /\ ~width_positive(cfg.kernel_width)
  /\ cfg.asserts

CallInit ==
  /\ ctl.phase = "idle"
  /\ ctl.calls < MaxCalls
  /\ ctl' = Started("init", "init")
  /\ obs' = [obs EXCEPT !.pre = fld]
  /\ UNCHANGED <<auxVars, nr, bis, cfg, fld, slv>>

InitTask(a) ==
  /\ ctl.phase = "init"
  /\ a \in ctl.todo
  /\ fld' = IF ~cfg.fixed[a] THEN fld
            ELSE IF cfg.variant = "classic" THEN classic_init(a)
            ELSE gradh_init(a)
  /\ ctl' = [ctl EXCEPT !.todo = @ \ {a}]
  /\ UNCHANGED <<auxVars, nr, bis, cfg, slv, obs>>

\* Largest width, in units, at which a density pass is started: the densities
\* of wider particles are below the resolution of the model numbers.
MaxWidth == 8
widths_in_range == \A a \in Particles : abs(fld.h[a]) <= MaxWidth * Scale

CallEstimateDensity ==
  /\ ctl.phase = "idle"
  /\ ctl.calls < MaxCalls
  /\ widths_in_range
  /\ ctl' = IF preamble_asserts
            THEN Aborted("estimate_density", ctl.calls + 1)
            ELSE Started("estimate_density", "density")
  /\ slv' = IF cfg.variant = "gradh"
            THEN [iter |-> [a \in Particles |-> 0],
                  status |-> [a \in Particles |-> "none"]]
            ELSE slv
  /\ obs' = [obs EXCEPT !.pre = fld]
  /\ UNCHANGED <<auxVars, nr, bis, cfg, fld>>

\* if (fixed[a]) return;
SkipFixed(a) ==
  /\ ctl.phase \in {"density", "forces"}
  /\ a \in ctl.todo
  /\ cfg.fixed[a]
  /\ ctl' = [ctl EXCEPT !.todo = @ \ {a}]
  /\ UNCHANGED <<auxVars, nr, bis, cfg, fld, slv, obs>>

ClassicDensityTask(a) ==
  /\ ctl.phase = "density"
  /\ cfg.variant = "classic"
  /\ a \in ctl.todo
  /\ ~cfg.fixed[a]
  /\ IF width_positive(cfg.kernel_width)
     THEN fld' = classic_density(a)
     ELSE \E g \in Garbage :
            fld' = [fld EXCEPT !.h[a] = cfg.kernel_width, !.rho[a] = g,
                               !.p[a] = g, !.cs[a] = g]
  /\ ctl' = [ctl EXCEPT !.todo = @ \ {a}]
  /\ UNCHANGED <<auxVars, nr, bis, cfg, slv, obs>>

\* One iteration of newton_raphson(h[a], ...) for a non-fixed particle a; on
\* a return of newton_raphson the status is dropped and p[a], cs[a] are set.
WidthSolveIterate(a) ==
  /\ ctl.phase = "density"
  /\ cfg.variant = "gradh"
  /\ a \in ctl.todo
  /\ ~cfg.fixed[a]
  /\ slv.iter[a] < default_max_iter
  /\ IF width_positive(fld.h[a])
     THEN LET f == width_residual(a, fld.h[a])
              b == newton_raphson_body(fld.h[a], f.zeta, f.dzeta_dh,
                                       small_number_v)
          IN  IF b.status = "continue"
              THEN /\ fld' = [fld EXCEPT !.rho[a] = f.rho,
                                         !.Omega[a] = f.Omega,
                                         !.h[a] = b.x]
                   /\ slv' = [slv EXCEPT !.iter[a] = @ + 1]
                   /\ ctl' = ctl
              ELSE /\ fld' = [fld EXCEPT !.rho[a] = f.rho,
                                         !.Omega[a] = f.Omega,
                                         !.h[a] = b.x,
                                         !.p[a] = pressure(f.rho),
                                         !.cs[a] = sound_speed(f.rho)]
                   /\ slv' = [slv EXCEPT !.status[a] = b.status]
                   /\ ctl' = [ctl EXCEPT !.todo = @ \ {a}]
     ELSE IF cfg.asserts
     THEN /\ fld' = [fld EXCEPT !.rho[a] = 0, !.Omega[a] = 0]
          /\ slv' = slv
          /\ ctl' = Aborted(ctl.call, ctl.calls)
     ELSE \E g \in Garbage :
            /\ fld' = [fld EXCEPT !.rho[a] = g, !.Omega[a] = g,
                                  !.p[a] = g, !.cs[a] = g]
            /\ slv' = [slv EXCEPT !.status[a] = "undefined"]
            /\ ctl' = [ctl EXCEPT !.todo = @ \ {a}]
  /\ UNCHANGED <<auxVars, nr, bis, cfg, obs>>

\* Defective variant of WidthSolveExhaust: the failure of the solve of a ends
\* the loop, and the pending tasks are dropped.
WidthSolveExhaustCancels(a) ==
  /\ ctl.phase = "density"
  /\ cfg.variant = "gradh"
  /\ a \in ctl.todo
  /\ ~cfg.fixed[a]
  /\ slv.iter[a] >= default_max_iter
  /\ fld' = fld
  /\ slv' = [slv EXCEPT !.status[a] = "fail_max_iter"]
  /\ ctl' = [ctl EXCEPT !.todo = {}]
  /\ UNCHANGED <<auxVars, nr, bis, cfg, obs>>

\* The iteration cap is reached: newton_raphson returns fail_max_iter, the
\* status is dropped and p[a], cs[a] are set.
WidthSolveExhaust(a) ==
  /\ ctl.phase = "density"
  /\ cfg.variant = "gradh"
  /\ a \in ctl.todo
  /\ ~cfg.fixed[a]
  /\ slv.iter[a] >= default_max_iter
  /\ fld' = [fld EXCEPT !.p[a] = pressure(fld.rho[a]),
                        !.cs[a] = sound_speed(fld.rho[a])]
  /\ slv' = [slv EXCEPT !.status[a] = "fail_max_iter"]
  /\ ctl' = [ctl EXCEPT !.todo = @ \ {a}]
  /\ UNCHANGED <<auxVars, nr, bis, cfg, obs>>

\* Defective variant of DensityJoin: the second loop starts while tasks of
\* the first one are still pending.
DensityJoinEarly ==
  /\ ctl.phase = "density"
  /\ ctl' = [ctl EXCEPT !.phase = "divcurl", !.todo = Particles]
  /\ UNCHANGED <<auxVars, nr, bis, cfg, fld, slv, obs>>

\* The first loop of estimate_density is over: the second one starts.
DensityJoin ==
  /\ ctl.phase = "density"
  /\ ctl.todo = {}
  /\ ctl' = [ctl EXCEPT !.phase = "divcurl", !.todo = Particles]
  /\ UNCHANGED <<auxVars, nr, bis, cfg, fld, slv, obs>>

\* Body of the second loop of estimate_density for a (fixed or not).
DivCurlTask(a) ==
  /\ ctl.phase = "divcurl"
  /\ a \in ctl.todo
  /\ LET ok == IF cfg.variant = "classic"
               THEN width_positive(cfg.kernel_width)
               ELSE gradh_widths_positive(a)
     IN  IF ok
         THEN /\ fld' = IF cfg.variant = "classic" THEN classic_div_curl(a)
                        ELSE gradh_div_curl(a)
              /\ ctl' = [ctl EXCEPT !.todo = @ \ {a}]
         ELSE IF cfg.asserts
         THEN /\ fld' = [fld EXCEPT !.div_v[a] = 0, !.curl_v[a] = 0]
              /\ ctl' = Aborted(ctl.call, ctl.calls)
         ELSE \E g \in Garbage :
                /\ fld' = [fld EXCEPT !.div_v[a] = g, !.curl_v[a] = g]
                /\ ctl' = [ctl EXCEPT !.todo = @ \ {a}]
  /\ UNCHANGED <<auxVars, nr, bis, cfg, slv, obs>>

CallEstimateForces ==
  /\ ctl.phase = "idle"
  /\ ctl.calls < MaxCalls
  /\ ctl' = IF preamble_asserts
            THEN Aborted("estimate_forces", ctl.calls + 1)
            ELSE Started("estimate_forces", "forces")
  /\ obs' = [pre |-> fld, omega_reads |-> {}]
  /\ UNCHANGED <<auxVars, nr, bis, cfg, fld, slv>>

\* Body of the loop of estimate_forces for a non-fixed particle a.
ForcesTask(a) ==
  /\ ctl.phase = "forces"
  /\ a \in ctl.todo
  /\ ~cfg.fixed[a]
  /\ LET ok == IF cfg.variant = "classic"
               THEN width_positive(cfg.kernel_width)
               ELSE gradh_widths_positive(a)
     IN  IF ok
         THEN /\ fld' = IF cfg.variant = "classic" THEN classic_forces(a)
                        ELSE gradh_forces(a)
              /\ obs' = IF cfg.variant = "classic" THEN obs
                        ELSE [obs EXCEPT !.omega_reads =
                                @ \cup gradh_forces_omega_reads(a)]
              /\ ctl' = [ctl EXCEPT !.todo = @ \ {a}]
         ELSE IF cfg.asserts
         THEN /\ fld' = [fld EXCEPT !.dv_dt[a] = 0, !.deps_dt[a] = 0]
              /\ obs' = obs
              /\ ctl' = Aborted(ctl.call, ctl.calls)
         ELSE \E g \in Garbage :
                /\ fld' = [fld EXCEPT !.dv_dt[a] = g, !.deps_dt[a] = g,
                                      !.dalpha_dt[a] = g]
                /\ obs' = obs
                /\ ctl' = [ctl EXCEPT !.todo = @ \ {a}]
  /\ UNCHANGED <<auxVars, nr, bis, cfg, slv>>

\* The (last) loop of the call is over: the call returns to the driver.
\* All three operations return void; nothing is reported.
Return ==
  /\ ctl.phase \in {"init", "divcurl", "forces"}
  /\ ctl.todo = {}
  /\ ctl' = [ctl EXCEPT !.phase = "idle",
               !.ret = [call |-> ctl.call, outcome |-> "returned",
                        errors |-> {}]]
  /\ UNCHANGED <<auxVars, nr, bis, cfg, fld, slv, obs>>

(***************************************************************************)
(* The family of smoothing kernels (part_002), probed one call at a time   *)
(*                                                                         *)
(* Arguments and results live on a grid of Ticks points per unit.  The     *)
(* polynomial pieces of unit_value and unit_deriv are evaluated exactly,   *)
(* as integer numerators over a fixed denominator; every other operation   *)
(* rounds to the nearest grid point, symmetrically in the sign and never   *)
(* to zero from a non-zero value, as a floating-point operation far from   *)
(* the underflow threshold does.                                           *)
(***************************************************************************)

\* Grid points per unit: a multiple of 2 and 3, so that the interval
\* boundaries 1/2, 2/3, 3/2 and 5/2 are grid points.
Ticks == 12

\* n / d (d > 0) rounded to the nearest integer, halves away from zero, and
\* to one unit in the last place where a non-zero quotient would vanish.
Nearest(n, d) ==
  IF n = 0 THEN 0
  ELSE LET m == (2 * abs(n) + d) \div (2 * d)
       IN  sign(n) * (IF m = 0 THEN 1 ELSE m)

\* Product and quotient of two grid numbers.
tmul(a, b) == Nearest(a * b, Ticks)
tdiv(a, b) == IF b < 0 THEN Nearest(-a * Ticks, -b) ELSE Nearest(a * Ticks, b)

\* inverse(h) on the grid.
tinverse(a) == tdiv(Ticks, a)

\* pow(a, n) on the grid, n a small non-negative integer.
RECURSIVE tpow(_, _)
tpow(a, n) == IF n = 0 THEN Ticks ELSE tmul(tpow(a, n - 1), a)

\* x^n for integers.
RECURSIVE ipow(_, _)
ipow(x, n) == IF n = 0 THEN 1 ELSE x * ipow(x, n - 1)

\* Sum of the squares of the components of a vector.
RECURSIVE norm2(_)
norm2(r) == IF r = <<>> THEN 0 ELSE r[1] * r[1] + norm2(Tail(r))

\* norm(r) of a vector of grid numbers, to the nearest grid point.
tnorm(r) ==
  LET n == norm2(r)
      s == IF n = 0 THEN 0 ELSE ISqrtFrom(n, n)
  IN  IF n - s * s > s THEN s + 1 ELSE s

\* Componentwise s * r and -r.
scaled(s, r) == [i \in 1..Len(r) |-> tmul(s, r[i])]
negated(r) == [i \in 1..Len(r) |-> -r[i]]
zero_vec(d) == [i \in 1..d |-> 0]

\* safe_divide(a, b) on the grid, where only b = 0 is approximately zero.
tsafe_divide(a, b) == IF b = 0 THEN 0 ELSE tdiv(a, b)

BSplineKernels == {"cubic", "thomas_couchman", "quartic", "quintic"}
Kernels == {"gaussian"} \cup BSplineKernels

\* exp(-x) for a grid number x >= 0, by the rational approximation
\* 1 / (1 + x + x^2 / 2): positive and decreasing, as exp(-x) is.
exp_neg(x) == tdiv(Ticks, Ticks + x + Nearest(tmul(x, x), 2))

\* Interval boundaries of the pieces of unit_value and of unit_deriv, in
\* grid points: piece i covers [b[i], b[i + 1]), the last piece is the zero
\* returned beyond the last boundary.
value_breaks(k) ==
  CASE k \in {"cubic", "thomas_couchman"} -> <<0, Ticks, 2 * Ticks>>
    [] k = "quartic" -> <<0, Ticks \div 2, (3 * Ticks) \div 2,
                          (5 * Ticks) \div 2>>
    [] k = "quintic" -> <<0, Ticks, 2 * Ticks, 3 * Ticks>>

deriv_breaks(k) ==
  IF k = "thomas_couchman"
  THEN <<0, (2 * Ticks) \div 3, Ticks, 2 * Ticks>>
  ELSE value_breaks(k)

\* Denominators of the exact piece values below.
value_den(k) ==
  CASE k \in {"cubic", "thomas_couchman"} -> 4 * ipow(Ticks, 3)
    [] k = "quartic" -> ipow(Ticks, 4)
    [] k = "quintic" -> ipow(Ticks, 5)

deriv_den(k) ==
  CASE k \in {"cubic", "thomas_couchman"} -> 4 * ipow(Ticks, 2)
    [] k = "quartic" -> ipow(Ticks, 3)
    [] k = "quintic" -> ipow(Ticks, 4)

\* Piece i of unit_value at q, times value_den(k).
unit_value_piece(k, i, q) ==
  LET T == Ticks
      H == Ticks \div 2
  IN  CASE k \in {"cubic", "thomas_couchman"} ->
             (CASE i = 1 -> ipow(2 * T - q, 3) - 4 * ipow(T - q, 3)
                [] i = 2 -> ipow(2 * T - q, 3)
                [] OTHER -> 0)
        [] k = "quartic" ->
             (CASE i = 1 -> ipow(5 * H - q, 4) - 5 * ipow(3 * H - q, 4)
                            + 10 * ipow(H - q, 4)
                [] i = 2 -> ipow(5 * H - q, 4) - 5 * ipow(3 * H - q, 4)
                [] i = 3 -> ipow(5 * H - q, 4)
                [] OTHER -> 0)
        [] k = "quintic" ->
             (CASE i = 1 -> ipow(3 * T - q, 5) - 6 * ipow(2 * T - q, 5)
                            + 15 * ipow(T - q, 5)
                [] i = 2 -> ipow(3 * T - q, 5) - 6 * ipow(2 * T - q, 5)
                [] i = 3 -> ipow(3 * T - q, 5)
                [] OTHER -> 0)

\* Piece i of unit_deriv at q, times deriv_den(k).
unit_deriv_piece(k, i, q) ==
  LET T == Ticks
      H == Ticks \div 2
  IN  CASE k = "cubic" ->
             (CASE i = 1 -> -3 * ipow(2 * T - q, 2) + 12 * ipow(T - q, 2)
                [] i = 2 -> -3 * ipow(2 * T - q, 2)
                [] OTHER -> 0)
        [] k = "thomas_couchman" ->
             (CASE i = 1 -> -4 * ipow(T, 2)
                [] i = 2 -> (9 * q - 12 * T) * q
                [] i = 3 -> 3 * ipow(2 * T - q, 2)
                [] OTHER -> 0)
        [] k = "quartic" ->
             (CASE i = 1 -> -4 * ipow(5 * H - q, 3) + 20 * ipow(3 * H - q, 3)
                            - 40 * ipow(H - q, 3)
                [] i = 2 -> -4 * ipow(5 * H - q, 3) + 20 * ipow(3 * H - q, 3)
                [] i = 3 -> -4 * ipow(5 * H - q, 3)
                [] OTHER -> 0)
        [] k = "quintic" ->
             (CASE i = 1 -> -5 * ipow(3 * T - q, 4) + 30 * ipow(2 * T - q, 4)
                            - 75 * ipow(T - q, 4)
                [] i = 2 -> -5 * ipow(3 * T - q, 4) + 30 * ipow(2 * T - q, 4)
                [] i = 3 -> -5 * ipow(3 * T - q, 4)
                [] OTHER -> 0)

\* The piece the chain of `if`s selects for q: the first i with
\* b[i] <= q < b[i + 1], and the trailing zero piece otherwise.
piece_at(b, q) ==
  IF \E i \in 1..(Len(b) - 1) : b[i] <= q /\ q < b[i + 1]
  THEN CHOOSE i \in 1..(Len(b) - 1) : b[i] <= q /\ q < b[i + 1]
  ELSE Len(b)

\* unit_value(q) and unit_deriv(q) of kernel k, as grid numbers.
unit_value_of(k, q) ==
  IF k = "gaussian" THEN exp_neg(tmul(q, q))
  ELSE Nearest(unit_value_piece(k, piece_at(value_breaks(k), q), q) * Ticks,
               value_den(k))

unit_deriv_of(k, q) ==
  IF k = "gaussian" THEN tmul(tmul(-2 * Ticks, q), exp_neg(tmul(q, q)))
  ELSE Nearest(unit_deriv_piece(k, piece_at(deriv_breaks(k), q), q) * Ticks,
               deriv_den(k))

\* GaussianSmoothingKernel::unit_radius(): sqrt(-log(min)) = 26.6 units.
gaussian_unit_radius == 319

\* unit_radius() of kernel k.
unit_radius_of(k) ==
  CASE k = "gaussian" -> gaussian_unit_radius
    [] k \in {"cubic", "thomas_couchman"} -> 2 * Ticks
    [] k = "quartic" -> (5 * Ticks) \div 2
    [] k = "quintic" -> 3 * Ticks

\* weight<Real, Dim>() of the B-spline kernels as written in the source:
\* num / den, times inv_pi where the flag is set.
weight_ratio(k, d) ==
  CASE k \in {"cubic", "thomas_couchman"} ->
         (CASE d = 1 -> [num |-> 2, den |-> 3, inv_pi |-> FALSE]
            [] d = 2 -> [num |-> 10, den |-> 7, inv_pi |-> TRUE]
            [] d = 3 -> [num |-> 1, den |-> 1, inv_pi |-> TRUE])
    [] k = "quartic" ->
         (CASE d = 1 -> [num |-> 1, den |-> 24, inv_pi |-> FALSE]
            [] d = 2 -> [num |-> 96, den |-> 1199, inv_pi |-> TRUE]
            [] d = 3 -> [num |-> 1, den |-> 2, inv_pi |-> TRUE])
    [] k = "quintic" ->
         (CASE d = 1 -> [num |-> 1, den |-> 120, inv_pi |-> FALSE]
            [] d = 2 -> [num |-> 7, den |-> 478, inv_pi |-> TRUE]
            [] d = 3 -> [num |-> 1, den |-> 120, inv_pi |-> TRUE])

\* std::numbers::inv_sqrtpi = 0.564 as a grid number.
inv_sqrtpi == 7

\* weight<Real, Dim>() of kernel k as a grid number.
weight_of(k, d) ==
  IF k = "gaussian" THEN tpow(inv_sqrtpi, d)
  ELSE LET w == weight_ratio(k, d)
       IN  Nearest(w.num * Ticks * (IF w.inv_pi THEN inv_pi ELSE Scale),
                   w.den * Scale)

\* SmoothingKernel::radius(h)
radius_of(k, h) == tmul(unit_radius_of(k), h)

\* SmoothingKernel::operator()(r, h) in dimension d = Len(r).
value_of(k, r, h) ==
  LET h_inverse == tinverse(h)
      q == tmul(h_inverse, tnorm(r))
  IN  tmul(tmul(tpow(h_inverse, Len(r)), weight_of(k, Len(r))),
           unit_value_of(k, q))

\* SmoothingKernel::grad(r, h) with a division that is not guarded: the
\* divisor is recorded, a zero divisor leaves no number in the result.
grad_unguarded(k, r, h) ==
  LET h_inverse == tinverse(h)
      q == tmul(h_inverse, tnorm(r))
      c == tmul(tpow(h_inverse, Len(r) + 2), weight_of(k, Len(r)))
  IN  [vec |-> IF q = 0 THEN [i \in 1..Len(r) |-> "nan"]
               ELSE scaled(tmul(c, tdiv(unit_deriv_of(k, q), q)), r),
       divs |-> <<q>>]

\* SmoothingKernel::grad(r, h) with q taken from the first component of r
\* instead of norm(r).
grad_signed_q(k, r, h) ==
  LET h_inverse == tinverse(h)
      q == tmul(h_inverse, r[1])
      c == tmul(tpow(h_inverse, Len(r) + 2), weight_of(k, Len(r)))
  IN  [vec |-> scaled(tmul(c, tsafe_divide(unit_deriv_of(k, q), q)), r),
       divs |-> IF q = 0 THEN <<>> ELSE <<q>>]

\* SmoothingKernel::grad(r, h): the gradient and the divisors that
\* safe_divide actually divided by.
grad_of(k, r, h) ==
  LET h_inverse == tinverse(h)
      q == tmul(h_inverse, tnorm(r))
      c == tmul(tpow(h_inverse, Len(r) + 2), weight_of(k, Len(r)))
  IN  [vec |-> scaled(tmul(c, tsafe_divide(unit_deriv_of(k, q), q)), r),
       divs |-> IF q = 0 THEN <<>> ELSE <<q>>]

\* SmoothingKernel::radius_deriv(r, h)
radius_deriv_of(k, r, h) ==
  LET h_inverse == tinverse(h)
      q == tmul(h_inverse, tnorm(r))
  IN  tmul(tmul(tpow(h_inverse, Len(r) + 1), weight_of(k, Len(r))),
           -Len(r) * unit_value_of(k, q) - tmul(q, unit_deriv_of(k, q)))

\* Inputs of the probe: widths (all positive, the precondition of every
\* kernel function) and displacement components, in grid points.
MaxR == 3
RComps == {10 * c : c \in -MaxR..MaxR}
KernelWidths == {Ticks \div 2, 10, Ticks, (3 * Ticks) \div 2}
Dims == {1, 2, 3}

KernelInit ==
  \E k \in Kernels, d \in Dims, h \in KernelWidths :
    \E r \in [1..d -> RComps] :
      krn = [kernel |-> k, dim |-> d, r |-> r, h |-> h, op |-> "none",
             val |-> 0, vec |-> <<>>, divs |-> <<>>, edges |-> <<>>]

KernelIdle == krn = "unused"

KernelRadius ==
  /\ krn.op = "none"
  /\ krn' = [krn EXCEPT !.op = "radius", !.val = radius_of(krn.kernel, krn.h)]
  /\ UNCHANGED <<nr, bis, estVars, par>>

KernelValue ==
  /\ krn.op = "none"
  /\ krn' = [krn EXCEPT !.op = "value",
                        !.val = value_of(krn.kernel, krn.r, krn.h)]
  /\ UNCHANGED <<nr, bis, estVars, par>>

KernelGrad ==
  /\ krn.op = "none"
  /\ LET g == grad_of(krn.kernel, krn.r, krn.h)
     IN  krn' = [krn EXCEPT !.op = "grad", !.vec = g.vec, !.divs = g.divs]
  /\ UNCHANGED <<nr, bis, estVars, par>>

KernelRadiusDeriv ==
  /\ krn.op = "none"
  /\ krn' = [krn EXCEPT !.op = "radius_deriv",
                        !.val = radius_deriv_of(krn.kernel, krn.r, krn.h)]
  /\ UNCHANGED <<nr, bis, estVars, par>>

\* unit_value and unit_deriv of kernel k evaluated on both sides of every
\* interval boundary q0: by the piece ending at q0 and by the piece starting
\* at q0 (the zero beyond the unit radius being the last piece).
unit_edges(k) ==
  IF k = "gaussian" THEN <<>>
  ELSE [i \in 1..(Len(value_breaks(k)) - 1) |->
          LET q0 == value_breaks(k)[i + 1]
          IN  [fn |-> "unit_value", q |-> q0,
               below |-> unit_value_piece(k, i, q0),
               above |-> unit_value_piece(k, i + 1, q0)]]
       \o
       [i \in 1..(Len(deriv_breaks(k)) - 1) |->
          LET q0 == deriv_breaks(k)[i + 1]
          IN  [fn |-> "unit_deriv", q |-> q0,
               below |-> unit_deriv_piece(k, i, q0),
               above |-> unit_deriv_piece(k, i + 1, q0)]]

KernelUnitEdges ==
  /\ krn.op = "none"
  /\ krn' = [krn EXCEPT !.op = "unit_edges", !.edges = unit_edges(krn.kernel)]
  /\ UNCHANGED <<nr, bis, estVars, par>>

\* Area of the unit sphere of d-dimensional space: 2, 2 pi, 4 pi.
sphere_area(d) ==
  CASE d = 1 -> [coef |-> 2, pi |-> FALSE]
    [] d = 2 -> [coef |-> 2, pi |-> TRUE]
    [] d = 3 -> [coef |-> 4, pi |-> TRUE]

\* Trapezoid sum, over the grid points 0..q, of unit_value(q) q^(d - 1) in
\* units of Ticks^-(d + 2) (the end point 0 counts half in dimension 1; in
\* the other dimensions and at the unit radius the integrand is zero).
RECURSIVE radial_sum(_, _, _)
radial_sum(k, d, q) ==
  IF q < 0 THEN 0
  ELSE LET u == Nearest(unit_value_piece(k, piece_at(value_breaks(k), q), q)
                          * Ticks,
                        value_den(k) \div (Ticks * Ticks))
           t == u * ipow(q, d - 1)
       IN  (IF q = 0 THEN Nearest(t, 2) ELSE t) + radial_sum(k, d, q - 1)

\* weight<d> times the integral of unit_value(|q|) over d-dimensional
\* q-space, in thousandths; inv_pi of the weight and pi of the sphere area
\* cancel.
normalization(k, d) ==
  LET w == weight_ratio(k, d)
      a == sphere_area(d)
      i == Nearest(radial_sum(k, d, unit_radius_of(k)), ipow(Ticks, d))
      n == Nearest(w.num * a.coef * i * (Scale \div 8),
                   w.den * (ipow(Ticks, 3) \div 8))
  IN  IF w.inv_pi = a.pi THEN n
      ELSE IF a.pi THEN Nearest(n * Scale, inv_pi)
      ELSE Nearest(n * inv_pi, Scale)

\* The kernel summed over space.
KernelNormalization ==
  /\ krn.op = "none"
  /\ krn.kernel \in BSplineKernels
  /\ krn' = [krn EXCEPT !.op = "normalization",
                        !.val = normalization(krn.kernel, krn.dim)]
  /\ UNCHANGED <<nr, bis, estVars, par>>

(***************************************************************************)
(* Parallel partitioners (partitioner.hpp)                                 *)
(***************************************************************************)

\* A range is handed to blockify as its pair of iterators [begin, end); a
\* blocked range adds the grain size.  par.blocks is the sequence, in index
\* order, of the blocks the parallel-for currently holds.

\* Largest range size and largest number of worker threads.
MaxSize == 8
MaxThreads == 4
RangeBegins == {0, 5}
Partitioners == {"auto", "static"}

\* divide_up(a, b): a / b rounded up.
divide_up(a, b) == (a + b - 1) \div b

\* num_threads(): the current number of worker threads.
num_threads == par.threads

\* Grain size of a tbb::blocked_range constructed without one.
default_grainsize == 1

\* Defective variant of StaticPartitioner::blockify: the last element is left
\* out of the blocked range.
StaticPartitioner_blockify_short(range) ==
  [begin |-> range.begin,
   end |-> IF range.end > range.begin THEN range.end - 1 ELSE range.end,
   grainsize |-> divide_up(range.end - range.begin, num_threads)]

\* Defective variant of AutoPartitioner::blockify: a grain size of zero.
AutoPartitioner_blockify_no_grain(range) ==
  [begin |-> range.begin, end |-> range.end, grainsize |-> 0]

\* AutoPartitioner::blockify(range)
AutoPartitioner_blockify(range) ==
  [begin |-> range.begin, end |-> range.end, grainsize |-> default_grainsize]

\* StaticPartitioner::blockify(range)
StaticPartitioner_blockify(range) ==
  [begin |-> range.begin, end |-> range.end,
   grainsize |-> divide_up(range.end - range.begin, num_threads)]

blockify(partitioner, range) ==
  IF partitioner = "auto" THEN AutoPartitioner_blockify(range)
  ELSE StaticPartitioner_blockify(range)

\* tbb::blocked_range: size, is_divisible and the splitting constructor (the
\* block keeps the lower half, the new block takes the upper half).
block_size(b) == b.end - b.begin
is_divisible(b) == block_size(b) > b.grainsize
split_middle(b) == b.begin + block_size(b) \div 2
split_lower(b) == [b EXCEPT !.end = split_middle(b)]
split_upper(b) == [b EXCEPT !.begin = split_middle(b)]

ParInit ==
  \E partitioner \in Partitioners, first \in RangeBegins,
     n \in 0..MaxSize, threads \in 1..MaxThreads :
    par = [partitioner |-> partitioner, threads |-> threads,
           range |-> [begin |-> first, end |-> first + n],
           phase |-> "range", blocks |-> <<>>]

ParIdle == par = "unused"

\* blockify returns the blocked range: the parallel-for starts from it.
ParBlockify ==
  /\ par.phase = "range"
  /\ par' = [par EXCEPT !.phase = "blocked",
                        !.blocks = <<blockify(par.partitioner, par.range)>>]
  /\ UNCHANGED <<nr, bis, estVars, krn>>

\* blockify hands a grain size of zero to tbb::blocked_range, which requires
\* a positive one: a build of the library with assertions stops here (one
\* without them goes on as ParBlockify).
ParGrainAssert ==
  /\ par.phase = "range"
  /\ blockify(par.partitioner, par.range).grainsize <= 0
  /\ par' = [par EXCEPT !.phase = "aborted"]
  /\ UNCHANGED <<nr, bis, estVars, krn>>

\* A divisible block is split in two.
ParSplit ==
  /\ par.phase = "blocked"
  /\ \E i \in 1..Len(par.blocks) :
       /\ is_divisible(par.blocks[i])
       /\ par' = [par EXCEPT !.blocks =
                    SubSeq(@, 1, i - 1)
                    \o <<split_lower(@[i]), split_upper(@[i])>>
                    \o SubSeq(@, i + 1, Len(@))]
  /\ UNCHANGED <<nr, bis, estVars, krn>>

\* No block is divisible any more: the blocks are the chunks that run.
ParDispatch ==
  /\ par.phase = "blocked"
  /\ \A i \in 1..Len(par.blocks) : ~is_divisible(par.blocks[i])
  /\ par' = [par EXCEPT !.phase = "chunked"]
  /\ UNCHANGED <<nr, bis, estVars, krn>>

(***************************************************************************)
(* Specifications                                                          *)
(***************************************************************************)

vars == <<nr, bis, cfg, fld, ctl, slv, obs, krn, par>>

Init == EstInit /\ NRIdle /\ BisIdle /\ KernelIdle /\ ParIdle
Next ==
  \/ CallInit
  \/ CallEstimateDensity
  \/ CallEstimateForces
  \/ \E a \in Particles : InitTask(a)
  \/ \E a \in Particles : SkipFixed(a)
  \/ \E a \in Particles : ClassicDensityTask(a)
  \/ \E a \in Particles : WidthSolveIterate(a)
  \/ \E a \in Particles : WidthSolveExhaust(a)
  \/ DensityJoin
  \/ \E a \in Particles : DivCurlTask(a)
  \/ \E a \in Particles : ForcesTask(a)
  \/ Return
Spec == Init /\ [][Next]_vars

InitNR == NRInit /\ BisIdle /\ EstIdle /\ KernelIdle /\ ParIdle
NextNR == NRIterate \/ NRExhaust
SpecNR == InitNR /\ [][NextNR]_vars

InitBisection == BisInit /\ NRIdle /\ EstIdle /\ KernelIdle /\ ParIdle
NextBisection == BisEntry \/ BisIterate \/ BisExhaust
SpecBisection == InitBisection /\ [][NextBisection]_vars

\* Either root finder, called once and run to its return: the loops are
\* sequential code, which keeps taking its next step.
InitRootFinders ==
  /\ \/ NRInit /\ BisIdle
     \/ BisInit /\ NRIdle
  /\ EstIdle /\ KernelIdle /\ ParIdle
NextRootFinders ==
  \/ NRIterate \/ NRExhaust
  \/ BisEntry \/ BisIterate \/ BisExhaust
SpecRootFinders ==
  InitRootFinders /\ [][NextRootFinders]_vars /\ WF_vars(NextRootFinders)

InitKernel == KernelInit /\ NRIdle /\ BisIdle /\ EstIdle /\ ParIdle
NextKernel ==
  \/ KernelRadius \/ KernelValue \/ KernelGrad \/ KernelRadiusDeriv
  \/ KernelUnitEdges \/ KernelNormalization
SpecKernel == InitKernel /\ [][NextKernel]_vars

InitPartitioner == ParInit /\ NRIdle /\ BisIdle /\ EstIdle /\ KernelIdle
NextPartitioner == ParBlockify \/ ParGrainAssert \/ ParSplit \/ ParDispatch
SpecPartitioner == InitPartitioner /\ [][NextPartitioner]_vars

(***************************************************************************)
(* Claims about newton_raphson (checked under SpecNR)                      *)
(***************************************************************************)

\* The last evaluation of f.
NRLast == nr.evals[Len(nr.evals)]

\* C2 (as stated): newton_raphson returns fail_zero_deriv exactly when some
\* iteration had a residual outside the tolerance and |derivative| smaller
\* than the tolerance eps passed to the call.
C2_ZeroDerivIffBelowEps ==
  NRDone =>
    ((nr.status = "fail_zero_deriv") <=>
      (\E i \in 1..Len(nr.evals) :
         abs(nr.evals[i].y) > nr.eps /\ abs(nr.evals[i].df) < nr.eps))

\* C2 (amended): newton_raphson returns fail_zero_deriv exactly when some
\* iteration had a residual outside the tolerance eps and |derivative| at
\* most small_number_v of the numeric type, whatever eps was passed.
C2_ZeroDerivIffSmallNumber ==
  NRDone =>
    ((nr.status = "fail_zero_deriv") <=>
      (\E i \in 1..Len(nr.evals) :
         abs(nr.evals[i].y) > nr.eps
         /\ abs(nr.evals[i].df) <= small_number_v))

\* C2 witness: a call with a caller-supplied eps above the default that
\* ended fail_zero_deriv on a derivative of magnitude exactly small_number_v.
C2_Witness ==
  /\ nr.status = "fail_zero_deriv"
  /\ nr.eps > small_number_v
  /\ Len(nr.evals) >= 1
  /\ abs(NRLast.df) = small_number_v

\* C3: whenever newton_raphson returns success, the residual of the last
\* invocation of f is within eps and x still is the point of that invocation.
C3_SuccessMeansLastResidualSmall ==
  nr.status = "success" =>
    /\ Len(nr.evals) >= 1
    /\ abs(NRLast.y) <= nr.eps
    /\ nr.x = NRLast.x

\* C3 witness: a success reached after x was updated at least once.
C3_Witness ==
  /\ nr.status = "success"
  /\ Len(nr.evals) >= 2
  /\ nr.x # nr.evals[1].x

\* C4: an evaluation with derivative exactly zero and a residual outside the
\* tolerance ends the call with fail_zero_deriv: it is the last evaluation,
\* nothing was divided by that derivative and x is left as it was.
C4_ExactZeroDerivative ==
  \A i \in 1..Len(nr.evals) :
    (nr.evals[i].df = 0 /\ abs(nr.evals[i].y) > nr.eps) =>
      /\ i = Len(nr.evals)
      /\ nr.status = "fail_zero_deriv"
      /\ nr.x = nr.evals[i].x
      /\ Len(nr.divs) = i - 1
      /\ \A k \in 1..Len(nr.divs) : nr.divs[k] # 0

\* C4 witness: f(x) = x^2 - 2 started exactly at x = 0 with max_iter >= 1.
C4_Witness ==
  /\ nr.f = [kind |-> "quad", c |-> 2 * Scale]
  /\ Len(nr.evals) = 1
  /\ nr.evals[1].x = 0
  /\ nr.evals[1].df = 0
  /\ nr.status = "fail_zero_deriv"
  /\ nr.x = 0

(***************************************************************************)
(* Claims about bisection (checked under SpecBisection)                    *)
(***************************************************************************)

\* The residual signs of the two bounds at entry.
EntrySameSign ==
  sign(BisApply(bis.f, bis.entry_min)) = sign(BisApply(bis.f, bis.entry_max))

\* C5 (as stated): bisection returns failure_sign whenever f(min_x) and
\* f(max_x) at entry share the same sign, for every tolerance and max_iter.
C5_SameSignAlwaysFails ==
  (BisDone /\ EntrySameSign) => bis.status = "failure_sign"

\* C5 (amended): bisection returns failure_sign whenever f(min_x) and
\* f(max_x) at entry share the same sign, neither residual is within the
\* tolerance and max_iter >= 1.
C5_SameSignFailsUnlessEndConverged ==
  (/\ BisDone
   /\ EntrySameSign
   /\ abs(BisApply(bis.f, bis.entry_min)) > bis.eps
   /\ abs(BisApply(bis.f, bis.entry_max)) > bis.eps
   /\ bis.max_iter >= 1) => bis.status = "failure_sign"

\* C5 witness: a call whose bounds share a sign returned failure_sign with
\* the bracket untouched.
C5_Witness ==
  /\ bis.status = "failure_sign"
  /\ EntrySameSign
  /\ bis.entry_min < bis.entry_max

\* The bracket of a monotone function with a sign change.
MonotoneSignChange ==
  /\ Monotone(bis.f)
  /\ sign(BisApply(bis.f, bis.entry_min)) # sign(BisApply(bis.f, bis.entry_max))

\* C6 (as stated): for a monotone f with a sign change on [min_x, max_x],
\* bisection with the default iteration cap returns success, and on return
\* min_x = max_x = x with |f(x)| <= eps.
C6_MonotoneAlwaysSucceeds ==
  (BisDone /\ MonotoneSignChange /\ bis.max_iter = default_max_iter) =>
    /\ bis.status = "success"
    /\ bis.min_x = bis.max_x
    /\ abs(BisApply(bis.f, bis.min_x)) <= bis.eps

\* C6 (amended): for a monotone f with a sign change on [min_x, max_x],
\* bisection never returns failure_sign (it returns success or
\* fail_max_iter), and whenever it returns success min_x = max_x = x with
\* |f(x)| <= eps.
C6_MonotoneNeverSignFailure ==
  (BisDone /\ MonotoneSignChange) =>
    /\ bis.status \in {"success", "fail_max_iter"}
    /\ bis.status = "success" =>
         /\ bis.min_x = bis.max_x
         /\ abs(BisApply(bis.f, bis.min_x)) <= bis.eps

\* C6 witness: a monotone function with a sign change for which the default
\* cap sufficed, after at least two false-position estimates.
C6_Witness ==
  /\ MonotoneSignChange
  /\ bis.max_iter = default_max_iter
  /\ bis.status = "success"
  /\ Len(bis.xs) >= 2
  /\ bis.min_x = bis.max_x


(***************************************************************************)
(* Claims about the estimators (checked under Spec)                        *)
(***************************************************************************)

FieldNames ==
  {"h", "rho", "p", "cs", "Omega", "div_v", "curl_v", "dv_dt", "deps_dt",
   "dalpha_dt"}

SolveFailed(a) == slv.status[a] \in {"fail_max_iter", "fail_zero_deriv"}

\* C1: in the Grad-H estimate_density, a width solve that ends with
\* fail_max_iter or fail_zero_deriv for particle a is surfaced to the caller
\* as an error for a: the call never returns normally without reporting a.
C1_SolveFailureSurfaced ==
  (/\ cfg.variant = "gradh"
   /\ ctl.ret.call = "estimate_density"
   /\ ctl.ret.outcome = "returned") =>
    \A a \in Particles : SolveFailed(a) => a \in ctl.ret.errors

\* C7: estimate_density and estimate_forces of both variants leave every
\* field of every fixed particle as it was before the call.
C7_FixedParticlesUntouched ==
  ctl.call \in {"estimate_density", "estimate_forces"} =>
    \A a \in Particles : cfg.fixed[a] =>
      \A f \in FieldNames : fld[f][a] = obs.pre[f][a]

\* C8: the Grad-H estimate_forces never reads Omega of a non-fixed particle
\* whose most recent width solve did not return success.
C8_OmegaReadOnlyAfterConvergence ==
  cfg.variant = "gradh" =>
    \A b \in obs.omega_reads : cfg.fixed[b] \/ ~SolveFailed(b)

\* C9: the smoothing width stays strictly positive: from a cloud with
\* h[a] > 0 for every particle (and a positive configured width), h[a] > 0
\* holds after every step of every init, estimate_density and
\* estimate_forces call, intermediate Newton-Raphson updates included.
C9_WidthStaysPositive ==
  (cfg.variant = "gradh" \/ width_positive(cfg.kernel_width)) =>
    \A a \in Particles : fld.h[a] > 0

\* C10: with a configured kernel width <= 0, each of init, estimate_density
\* and estimate_forces of the fixed-width estimator fails before it has
\* modified any particle field: no field ever differs from its value at
\* the entry of the call and no call returns normally.
C10_NonPositiveWidthFailsEagerly ==
  (cfg.variant = "classic" /\ ~width_positive(cfg.kernel_width)) =>
    /\ fld = obs.pre
    /\ ctl.ret.outcome # "returned"

(***************************************************************************)
(* Claims about the smoothing kernels (checked under SpecKernel)           *)
(***************************************************************************)

\* C11: for the cubic, Thomas-Couchman, quartic and quintic kernels,
\* unit_value and unit_deriv are continuous at every interval boundary, the
\* unit radius included: the piece ending at q0 and the piece starting at
\* q0 have the same value at q0.
C11_PiecesContinuous ==
  (krn.op = "unit_edges" /\ krn.kernel \in BSplineKernels) =>
    \A i \in 1..Len(krn.edges) : krn.edges[i].below = krn.edges[i].above

\* C12: for every supported kernel and every dimension D in {1, 2, 3},
\* weight<D> times the integral of unit_value(|q|) over D-dimensional
\* q-space is 1 (to within 5 thousandths, the accuracy of the trapezoid sum).
C12_KernelNormalized ==
  krn.op = "normalization" => abs(krn.val - Scale) <= 5

\* C13: compact support: for every B-spline kernel, every h > 0 and every
\* displacement r with |r| >= radius(h), value(r, h) is exactly zero and
\* gradient(r, h) is the zero vector.
C13_CompactSupport ==
  (/\ krn.kernel \in BSplineKernels
   /\ tnorm(krn.r) >= radius_of(krn.kernel, krn.h)) =>
    /\ krn.op = "value" => krn.val = 0
    /\ krn.op = "grad" => krn.vec = zero_vec(krn.dim)

\* C14: for every kernel, every h > 0 and every displacement r,
\* gradient(r, h) = -gradient(-r, h) exactly.
C14_GradAntisymmetric ==
  krn.op = "grad" =>
    krn.vec = negated(grad_of(krn.kernel, negated(krn.r), krn.h).vec)

\* C14 witness: a non-zero gradient was returned for a displacement with
\* components of both signs.
C14_Witness ==
  /\ krn.op = "grad"
  /\ krn.dim >= 2
  /\ \E i, j \in 1..krn.dim : krn.r[i] < 0 /\ krn.r[j] > 0
  /\ \A i \in 1..krn.dim : krn.vec[i] # 0

\* C15: for coincident particles (r = 0, so q = 0) the gradient of every
\* kernel, the Thomas-Couchman kernel with its non-zero unit_deriv(0)
\* included, is the zero vector, obtained without a division by zero.
C15_CoincidentGradZero ==
  (krn.op = "grad" /\ krn.r = zero_vec(krn.dim)) =>
    /\ \A i \in 1..Len(krn.divs) : krn.divs[i] # 0
    /\ krn.vec = zero_vec(krn.dim)

\* C15 witness: the gradient of the Thomas-Couchman kernel at r = 0, where
\* unit_deriv(0) = -1.
C15_Witness ==
  /\ krn.op = "grad"
  /\ krn.kernel = "thomas_couchman"
  /\ krn.r = zero_vec(krn.dim)
  /\ unit_deriv_of(krn.kernel, 0) # 0
  /\ krn.vec = zero_vec(krn.dim)

(***************************************************************************)
(* Further claims about the estimators (checked under Spec)                *)
(***************************************************************************)

\* Whether every kernel call of the force loop for a has a positive width.
ForceWidthsPositive(a) ==
  IF cfg.variant = "classic" THEN width_positive(cfg.kernel_width)
  ELSE gradh_widths_positive(a)

\* C16: estimate_forces of both variants sets dv_dt[a] of every non-fixed
\* particle a to exactly the negated sum over its neighbours of the pairwise
\* pressure/viscosity terms times the kernel gradient, nothing else added
\* (so a particle whose only neighbour is itself gets dv_dt[a] = 0).
C16_MomentumSumOnly ==
  (ctl.call = "estimate_forces" /\ ctl.ret.outcome = "returned") =>
    \A a \in Particles :
      (~cfg.fixed[a] /\ ForceWidthsPositive(a)) =>
        fld.dv_dt[a] = 0 - (IF cfg.variant = "classic"
                            THEN classic_pair_sum(a)
                            ELSE gradh_pair_sum(a))

\* C17: in the Grad-H force pass the averaged kernel gradient is exactly
\* antisymmetric under exchange of the pair: grad_ab computed while
\* processing a is the exact negation of grad_ba computed while processing b.
C17_AveragedGradAntisymmetric ==
  (cfg.variant = "gradh" /\ ctl.call = "estimate_forces") =>
    \A a, b \in Particles :
      (width_positive(fld.h[a]) /\ width_positive(fld.h[b])) =>
        gradh_grad_ab(a, b) = 0 - gradh_grad_ab(b, a)

\* A finished Grad-H force pass with a pair of neighbours of different
\* widths whose two gradients differ and whose average is non-zero.
C17_Witness ==
  /\ cfg.variant = "gradh"
  /\ ctl.call = "estimate_forces"
  /\ ctl.ret.outcome = "returned"
  /\ \A c \in Particles : width_positive(fld.h[c])
  /\ \E a, b \in Particles :
       /\ a # b
       /\ ~cfg.fixed[a] /\ ~cfg.fixed[b]
       /\ fld.h[a] # fld.h[b]
       /\ b \in nearby(a, radius(fld.h[a]))
       /\ grad(r_ab(a, b), fld.h[a]) # grad(r_ab(a, b), fld.h[b])
       /\ gradh_grad_ab(a, b) # 0

\* C18: after the Grad-H estimate_density, for every non-fixed particle whose
\* width solve returned success, the stored rho[a] matches the target density
\* m[a] * (eta / h[a])^D at the stored h[a] within the tolerance of the
\* solve.
C18_ConvergedDensityMatchesTarget ==
  cfg.variant = "gradh" =>
    \A a \in Particles :
      (~cfg.fixed[a] /\ slv.status[a] = "success") =>
        abs(target_density(a, fld.h[a]) - fld.rho[a]) <= small_number_v

\* A returned Grad-H estimate_density in which a width solve needed at least
\* one step before it returned success.
C18_Witness ==
  /\ cfg.variant = "gradh"
  /\ ctl.call = "estimate_density"
  /\ ctl.ret.outcome = "returned"
  /\ \E a \in Particles :
       /\ ~cfg.fixed[a]
       /\ slv.status[a] = "success"
       /\ slv.iter[a] > 0
       /\ fld.h[a] # obs.pre.h[a]
       /\ fld.rho[a] > 0

(***************************************************************************)
(* Claims about the partitioners (checked under SpecPartitioner)           *)
(***************************************************************************)

\* C19: for every range size and every number of worker threads, the chunks
\* obtained from the blocked range of StaticPartitioner::blockify number at
\* most the number of worker threads.
C19_StaticChunksAtMostThreads ==
  (par.partitioner = "static" /\ par.phase = "chunked") =>
    Len(par.blocks) <= num_threads

\* The indices of a block.
block_indices(b) == b.begin .. (b.end - 1)

\* C20: for both partitioners and every range, the chunks produced from the
\* blockified range, in order, are exactly the range: every index of the
\* range is in exactly one chunk, consecutive chunks are contiguous, and no
\* index outside the range is in a chunk.
C20_ChunksReconstructRange ==
  par.phase \in {"blocked", "chunked"} =>
    /\ par.blocks[1].begin = par.range.begin
    /\ par.blocks[Len(par.blocks)].end = par.range.end
    /\ \A i \in 1..(Len(par.blocks) - 1) :
         par.blocks[i].end = par.blocks[i + 1].begin
    /\ \A k \in (par.range.begin - MaxSize)..(par.range.end + MaxSize) :
         Cardinality({i \in 1..Len(par.blocks) :
                        k \in block_indices(par.blocks[i])})
           = IF k \in block_indices(par.range) THEN 1 ELSE 0

\* The chunks of a range that does not start at zero, split into at least
\* three chunks of unequal sizes by the static partitioner.
C20_Witness ==
  /\ par.phase = "chunked"
  /\ par.partitioner = "static"
  /\ par.range.begin > 0
  /\ Len(par.blocks) >= 3
  /\ \E i, j \in 1..Len(par.blocks) :
       block_size(par.blocks[i]) # block_size(par.blocks[j])

\* C21: for every non-empty range, no chunk produced from the blocked range
\* of AutoPartitioner::blockify is empty.
C21_AutoChunksNonEmpty ==
  (/\ par.partitioner = "auto"
   /\ par.phase \in {"blocked", "chunked"}
   /\ block_size(par.range) > 0) =>
    \A i \in 1..Len(par.blocks) : block_size(par.blocks[i]) > 0

\* A range of at least three elements cut by the automatic partitioner down
\* to chunks of one element.
C21_Witness ==
  /\ par.partitioner = "auto"
  /\ par.phase = "chunked"
  /\ block_size(par.range) >= 3
  /\ Len(par.blocks) = block_size(par.range)

\* C30: the grain size that StaticPartitioner::blockify passes to the blocked
\* range is at least 1 for every range, the empty one included, and every
\* number of worker threads.
C30_StaticGrainPositive ==
  (par.partitioner = "static" /\ par.phase \in {"blocked", "chunked"}) =>
    \A i \in 1..Len(par.blocks) : par.blocks[i].grainsize >= 1

(***************************************************************************)
(* Footprints of the per-particle tasks of estimate_density and            *)
(* estimate_forces: the (field, index) slots the body of the loop for      *)
(* particle a writes and reads, in the pass the machine is in.             *)
(***************************************************************************)

Slots(fields, indices) == {<<f, i>> : f \in fields, i \in indices}

\* The particles whose slots the neighbour loop of a touches: a itself and
\* the particles within its search radius.
pass_neighbours(a) ==
  {a} \cup nearby(a, radius(IF cfg.variant = "classic" THEN cfg.kernel_width
                            ELSE fld.h[a]))

\* Defective variant of density_reads: the divergence/curl accumulation fused
\* into the first loop, which then reads the densities of the neighbours.
density_reads_fused(a) ==
  IF cfg.fixed[a] THEN {}
  ELSE Slots({"h", "rho", "Omega"}, pass_neighbours(a))

\* First loop of estimate_density.
density_writes(a) ==
  IF cfg.fixed[a] THEN {}
  ELSE IF cfg.variant = "classic" THEN Slots({"h", "rho", "p", "cs"}, {a})
  ELSE Slots({"h", "rho", "Omega", "p", "cs"}, {a})

density_reads(a) ==
  IF cfg.fixed[a] THEN {}
  ELSE IF cfg.variant = "classic" THEN Slots({"rho"}, {a})
  ELSE Slots({"h", "rho", "Omega"}, {a})

\* Second loop of estimate_density.
divcurl_writes(a) == Slots({"div_v", "curl_v"}, {a})

divcurl_reads(a) ==
  Slots({"div_v", "curl_v"}, {a})
  \cup (IF cfg.variant = "classic" THEN Slots({"rho"}, pass_neighbours(a))
        ELSE Slots({"h", "rho"}, pass_neighbours(a)))

\* The loop of estimate_forces.
forces_writes(a) ==
  IF cfg.fixed[a] THEN {}
  ELSE Slots({"dv_dt", "deps_dt", "dalpha_dt"}, {a})

forces_reads(a) ==
  IF cfg.fixed[a] THEN {}
  ELSE Slots({"dv_dt", "deps_dt"}, {a})
       \cup (IF cfg.variant = "classic"
             THEN Slots({"p", "rho"}, pass_neighbours(a))
             ELSE Slots({"h", "p", "rho", "Omega"}, pass_neighbours(a)))

PassPhases == {"density", "divcurl", "forces"}

task_writes(a) ==
  CASE ctl.phase = "density" -> density_writes(a)
    [] ctl.phase = "divcurl" -> divcurl_writes(a)
    [] ctl.phase = "forces" -> forces_writes(a)

task_reads(a) ==
  CASE ctl.phase = "density" -> density_reads(a)
    [] ctl.phase = "divcurl" -> divcurl_reads(a)
    [] ctl.phase = "forces" -> forces_reads(a)

\* The slots a step changes.
ChangedSlots ==
  {sl \in Slots(DOMAIN fld, Particles) : fld'[sl[1]][sl[2]] # fld[sl[1]][sl[2]]}

\* C22: within a pass of estimate_density or estimate_forces there is no data
\* race: every step of the pass writes only slots of the particle it
\* processes, and no slot written while processing one particle is read or
\* written while processing another particle of the same pass.
C22_NoDataRace ==
  [][ctl.phase \in PassPhases =>
       /\ \A a, b \in Particles :
            a # b =>
              task_writes(a) \cap (task_reads(b) \cup task_writes(b)) = {}
       /\ \/ ChangedSlots = {}
          \/ \E a \in ctl.todo :
               /\ ChangedSlots \subseteq task_writes(a)
               /\ ChangedSlots \subseteq Slots(DOMAIN fld, {a})]_vars

\* A force pass half done: a non-fixed particle already processed and a
\* non-fixed neighbour of it, which reads its slots, still to be processed.
C22_Witness ==
  /\ ctl.phase = "forces"
  /\ cfg.variant = "gradh"
  /\ \E a, b \in Particles :
       /\ a # b
       /\ ~cfg.fixed[a] /\ ~cfg.fixed[b]
       /\ a \notin ctl.todo /\ b \in ctl.todo
       /\ a \in pass_neighbours(b)
       /\ fld.dv_dt[a] # obs.pre.dv_dt[a]

\* Whether the first loop of the running estimate_density has finished
\* writing the fields of the non-fixed particle a.
density_settled(a) ==
  IF cfg.variant = "classic"
  THEN /\ fld.h[a] = cfg.kernel_width
       /\ width_positive(cfg.kernel_width) =>
            /\ fld.rho[a] = classic_density(a).rho[a]
            /\ fld.p[a] = pressure(fld.rho[a])
            /\ fld.cs[a] = sound_speed(fld.rho[a])
  ELSE /\ slv.status[a] # "none"
       /\ slv.status[a] # "undefined" =>
            /\ fld.p[a] = pressure(fld.rho[a])
            /\ fld.cs[a] = sound_speed(fld.rho[a])

\* C23: estimate_density is two-phase in both variants: whenever the
\* divergence/curl loop is running, the first loop has finished writing rho,
\* p and cs (and h, Omega) of every non-fixed particle.
C23_DensityTwoPhase ==
  ctl.phase = "divcurl" =>
    \A a \in Particles : ~cfg.fixed[a] => density_settled(a)

\* A divergence/curl loop under way after a first loop that changed the
\* density of a non-fixed particle.
C23_Witness ==
  /\ ctl.phase = "divcurl"
  /\ ctl.todo # Particles
  /\ \E a \in Particles :
       /\ ~cfg.fixed[a]
       /\ fld.rho[a] # obs.pre.rho[a]
       /\ a \notin ctl.todo

WidthSolveFailures == {"fail_max_iter", "fail_zero_deriv"}

\* C24: in the Grad-H estimate_density, when the width solve of a particle
\* returns a failure, every other non-fixed particle still has its h, rho,
\* Omega, p and cs written by that pass once the first loop is over.
C24_FailureLeavesOthersComputed ==
  (/\ cfg.variant = "gradh"
   /\ ctl.call = "estimate_density"
   /\ ctl.phase \in {"divcurl", "idle"}) =>
    \A a \in Particles :
      slv.status[a] \in WidthSolveFailures =>
        \A b \in Particles \ {a} :
          ~cfg.fixed[b] =>
            /\ slv.status[b] \in WidthSolveFailures \cup {"success", "undefined"}
            /\ density_settled(b)

\* A returned Grad-H estimate_density in which one width solve failed and
\* another one succeeded.
C24_Witness ==
  /\ cfg.variant = "gradh"
  /\ ctl.call = "estimate_density"
  /\ ctl.ret.outcome = "returned"
  /\ \E a, b \in Particles :
       /\ a # b
       /\ ~cfg.fixed[a] /\ ~cfg.fixed[b]
       /\ slv.status[a] \in WidthSolveFailures
       /\ slv.status[b] = "success"

(***************************************************************************)
(* Further claims about bisection (checked under SpecBisection)            *)
(***************************************************************************)

\* C25: each iteration of bisection that finds the residuals of the bounds of
\* opposite signs takes the false-position estimate
\* x = min_x - f(min_x)*(max_x - min_x)/(f(max_x) - f(min_x)); when it goes on
\* it replaces exactly one bound by x, the one whose residual has the sign of
\* f(x), and the residuals of the two bounds still have opposite signs.
C25_FalsePositionKeepsSignChange ==
  [][(/\ bis.status = "running"
      /\ bis.iter < bis.max_iter
      /\ sign(bis.max_f) # sign(bis.min_f)) =>
       LET x == bis.min_x - div(mul(bis.min_f, bis.max_x - bis.min_x),
                                bis.max_f - bis.min_f)
           y == BisApply(bis.f, x)
       IN  /\ bis'.xs = Append(bis.xs, x)
           /\ bis'.status = "running" =>
                /\ \/ /\ sign(y) = sign(bis.min_f)
                      /\ bis'.min_x = x /\ bis'.min_f = y
                      /\ bis'.max_x = bis.max_x /\ bis'.max_f = bis.max_f
                   \/ /\ sign(y) = sign(bis.max_f)
                      /\ bis'.max_x = x /\ bis'.max_f = y
                      /\ bis'.min_x = bis.min_x /\ bis'.min_f = bis.min_f
                /\ sign(bis'.min_f) # 0
                /\ sign(bis'.min_f) = 0 - sign(bis'.max_f)]_vars

\* A run in which both bounds have been replaced by false-position estimates.
C25_Witness ==
  /\ bis.status = "running"
  /\ Len(bis.xs) >= 2
  /\ bis.min_x # bis.entry_min
  /\ bis.max_x # bis.entry_max
  /\ bis.min_x \in {bis.xs[i] : i \in 1..Len(bis.xs)}
  /\ bis.max_x \in {bis.xs[i] : i \in 1..Len(bis.xs)}

(***************************************************************************)
(* Claims about both root finders (checked under SpecRootFinders)          *)
(***************************************************************************)

\* The number of invocations of f so far is within the bound of the call.
EvaluationsBounded ==
  /\ nr.status # "unused" =>
       /\ Len(nr.evals) <= nr.max_iter
       /\ (NRDone /\ nr.max_iter = 0) =>
            (nr.evals = <<>> /\ nr.status = "fail_max_iter")
  /\ bis.status # "unused" => bis.evals <= bis.max_iter + 2

\* C28: both root finders terminate with a bounded number of evaluations of
\* f: newton_raphson invokes f at most max_iter times (never, returning
\* fail_max_iter, when max_iter = 0), bisection at most max_iter + 2 times,
\* and each call eventually returns one of its three statuses.
C28_RootFindersTerminate ==
  /\ []EvaluationsBounded
  /\ <>(NRDone \/ BisDone)

\* A bisection that returned after exactly max_iter + 2 evaluations, the
\* default cap included.
C28_Witness ==
  /\ BisDone
  /\ bis.max_iter = default_max_iter
  /\ bis.evals = bis.max_iter + 2

\* C29: bisection keeps a valid bracket: min_x <= max_x at every point of
\* the run, both bounds and every false-position estimate stay inside the
\* interval given at entry, and on a failure_sign return the bounds are the
\* ones given at entry.
C29_BracketStaysValid ==
  bis.status # "unused" =>
    /\ bis.min_x <= bis.max_x
    /\ bis.entry_min <= bis.min_x
    /\ bis.max_x <= bis.entry_max
    /\ \A i \in 1..Len(bis.xs) :
         bis.entry_min <= bis.xs[i] /\ bis.xs[i] <= bis.entry_max
    /\ bis.status = "failure_sign" =>
         (bis.min_x = bis.entry_min /\ bis.max_x = bis.entry_max)

(***************************************************************************)
(* Further claims about the Grad-H estimator (checked under Spec)          *)
(***************************************************************************)

\* C26: after the Grad-H estimate_density returns, for every non-fixed
\* particle a whose width solve returned a status, the stored rho[a] and
\* Omega[a] are the ones the kernel sums give at the stored h[a], and p[a],
\* cs[a] are derived from that rho[a].
C26_FieldsDescribeStoredWidth ==
  (/\ cfg.variant = "gradh"
   /\ ctl.call = "estimate_density"
   /\ ctl.ret.outcome = "returned") =>
    \A a \in Particles :
      (/\ ~cfg.fixed[a]
       /\ slv.status[a] \in WidthSolveFailures \cup {"success"}
       /\ width_positive(fld.h[a])) =>
        /\ fld.rho[a] = width_residual(a, fld.h[a]).rho
        /\ fld.Omega[a] = width_residual(a, fld.h[a]).Omega
        /\ fld.p[a] = pressure(fld.rho[a])
        /\ fld.cs[a] = sound_speed(fld.rho[a])

\* What the force pass adds to dv_dt[a] on account of the particle b.
gradh_contribution(a, b) ==
  IF b \in nearby(a, radius(fld.h[a])) THEN 0 - gradh_pair_term(a, b) ELSE 0

\* C27: pairwise momentum symmetry of the Grad-H force pass: for every pair
\* of distinct non-fixed particles a and b, m_a times the contribution of b
\* to dv_dt[a] is the negation of m_b times the contribution of a to
\* dv_dt[b], also when b is within the search radius of a and a is outside
\* the search radius of b.
C27_PairwiseMomentumSymmetry ==
  (cfg.variant = "gradh" /\ ctl.call = "estimate_forces") =>
    \A a, b \in Particles :
      (/\ a # b
       /\ ~cfg.fixed[a] /\ ~cfg.fixed[b]
       /\ width_positive(fld.h[a]) /\ width_positive(fld.h[b])) =>
        mul(cfg.m[a], gradh_contribution(a, b))
          = 0 - mul(cfg.m[b], gradh_contribution(b, a))

=============================================================================
